---- MODULE Spec2Model ----
(***************************************************************************)
(* Model of the Localizer of RUST/start/src/main.rs: a catalog of language *)
(* files (supported_languages), a bounded cache of parsed language tables  *)
(* (supported_languages_cache) and its recency sequence (lru_order).       *)
(* Every public method of Localizer is one action; the language directory  *)
(* is the environment.                                                     *)
(***************************************************************************)
EXTENDS Naturals, Sequences, FiniteSets, TLC

\* ------------------------------------------------------------------ bounds

\* Largest cache capacity explored besides the capacity set by new().
MaxLimit == 2

\* Language codes that may have a file in the language directory.
FileCodes == {"en-GB", "fr", "de"}

\* Language codes a caller may request or reload; "xx" never has a file.
LangArgs == FileCodes \cup {"xx"}

\* Fallback arguments a caller may pass; "" is the empty fallback.
FallbackArgs == {"", "fr"}

\* Language files the environment writes, replaces or deletes during a run;
\* the other files stay as they were at construction.
ChangingCodes == {"en-GB", "fr"}

\* Text keys a caller may ask for.
Keys == {"greeting", "farewell"}

\* ------------------------------------------------------- program constants

\* The fixed default language code of get_text_by_key.
DefaultLang == "en-GB"

\* The capacity Localizer::new() configures.
DefaultLimit == 5

\* Capacities the Localizer is constructed with in this model.
Limits == (1..MaxLimit) \cup {DefaultLimit}

\* ------------------------------------------------------------ environment

\* A language file's content is a sequence of entries; a well-formed entry
\* is a <<key, value>> pair, anything else makes the document malformed.
\* Each language has its own texts, so a text tells which language's file it
\* came from, and "fr" has two versions of its file.
Malformed == << <<"greeting">> >>

Docs(code) ==
    CASE code = "en-GB" -> { << <<"greeting", "Hello">> >>, Malformed }
      [] code = "fr" -> { << <<"greeting", "Bonjour">> >>,
                          << <<"greeting", "Salut">>, <<"farewell", "Adieu">> >> }
      [] OTHER -> { << <<"greeting", "Hallo">> >> }

\* A file of the language directory: absent, or present with a document.
NoFile == [exists |-> FALSE, data |-> << >>]

FileStates(code) == {NoFile} \cup {[exists |-> TRUE, data |-> d] : d \in Docs(code)}

\* The directories explored.
Directories == {dir \in [FileCodes -> UNION {FileStates(c) : c \in FileCodes}] :
                   \A c \in FileCodes : dir[c] \in FileStates(c)}

\* ---------------------------------------------------------------- results

OkTrue == "Ok(true)"
OkFalse == "Ok(false)"
CatalogMiss == "NotFound: Language file not found"
ReadFailure == "NotFound: os error reading file"
ParseFailure == "InvalidData: Failed to parse JSON"
CacheAbsent == "NotFound: Language not found in cache"
KeyMiss == "NotFound: Key not found in language map"
ManageFailed == "Other: Failed to manage language cache"
NotSupported == "NotFound: Language not supported"
ScanFailure == "Err: read_dir failed"
OkText == "Ok(text)"

\* The std::io::ErrorKind of a result ("" for an Ok result).
ErrorKind(res) ==
    CASE res \in {CatalogMiss, ReadFailure, CacheAbsent, KeyMiss, NotSupported} -> "NotFound"
      [] res = ParseFailure -> "InvalidData"
      [] res = ManageFailed -> "Other"
      [] res = ScanFailure -> "Io"
      [] OTHER -> ""

IsErr(res) == ErrorKind(res) # ""

\* ------------------------------------------------------------------ state

VARIABLES
    fs,                         \* the language directory: file stem -> file
    supported_languages,        \* catalog: language code -> path
    supported_languages_cache,  \* language code -> table (key -> text)
    lru_order,                  \* recency sequence, front = oldest
    sup_lang_cache_limit,       \* capacity N
    last,                       \* the last completed call and what it returned
    touched                     \* SpecLoads only: the languages touched so far,
                                \* each once, the most recently touched last

vars == <<fs, supported_languages, supported_languages_cache, lru_order,
          sup_lang_cache_limit, last, touched>>

\* ---------------------------------------------------------------- helpers

\* The path scan_languages records for a language file: the file is
\* identified by its stem inside the language directory.
PathOf(code) == code

\* HashMap::insert
MapInsert(m, k, v) == [x \in (DOMAIN m) \cup {k} |-> IF x = k THEN v ELSE m[x]]

\* HashMap::remove
MapRemove(m, k) == [x \in (DOMAIN m) \ {k} |-> m[x]]

\* Vec::retain(|l| l != lang)
Retain(seq, lang) == SelectSeq(seq, LAMBDA l : l # lang)

\* Vec::push
Push(seq, lang) == Append(seq, lang)

\* The set of elements of a sequence.
Range(seq) == {seq[i] : i \in DOMAIN seq}

EmptyMap == [x \in {} |-> ""]

\* serde_json::from_str into HashMap<String, String>: every entry must be a
\* key/value pair; a later duplicate key replaces the earlier one.
RECURSIVE FoldEntries(_, _)
FoldEntries(doc, acc) ==
    IF doc = << >> THEN acc
    ELSE FoldEntries(Tail(doc), MapInsert(acc, Head(doc)[1], Head(doc)[2]))

WellFormed(doc) == \A i \in DOMAIN doc : Len(doc[i]) = 2

from_str(doc) ==
    IF WellFormed(doc)
    THEN [ok |-> TRUE, map |-> FoldEntries(doc, EmptyMap)]
    ELSE [ok |-> FALSE, map |-> EmptyMap]

\* fs::read_to_string of a path of the language directory.
read_to_string(dir, path) ==
    IF dir[path].exists
    THEN [ok |-> TRUE, data |-> dir[path].data]
    ELSE [ok |-> FALSE, data |-> << >>]

\* scan_languages: every regular file of the directory with the configured
\* extension, keyed by its stem.
scan_languages(dir) ==
    [code \in {c \in DOMAIN dir : dir[c].exists} |-> PathOf(code)]

\* ------------------------------------------------- langs_cache_manager

\* Mutant of TouchOrder: the code is pushed without the retain before it.
TouchOrder_PushOnly(lru, lang) == Push(lru, lang)

\* lru_order.retain(|l| l != _lang); lru_order.push(_lang)
TouchOrder(lru, lang) == Push(Retain(lru, lang), lang)

\* Mutant of EvictIfOver: the eviction pops the back of lru_order (the code
\* just inserted) instead of removing the front.
EvictIfOver_Pop(cache, lru, limit) ==
    IF Cardinality(DOMAIN cache) <= limit
    THEN [cache |-> cache, lru |-> lru, evicted |-> ""]
    ELSE [cache |-> MapRemove(cache, lru[Len(lru)]),
          lru |-> SubSeq(lru, 1, Len(lru) - 1),
          evicted |-> lru[Len(lru)]]

\* Mutant of EvictIfOver: the comparison is >= instead of >, so a cache that
\* has just reached the limit already evicts.
EvictIfOver_AtLimit(cache, lru, limit) ==
    IF Cardinality(DOMAIN cache) < limit
    THEN [cache |-> cache, lru |-> lru, evicted |-> ""]
    ELSE [cache |-> MapRemove(cache, Head(lru)), lru |-> Tail(lru),
          evicted |-> Head(lru)]

\* The capacity check after an insertion: within the limit nothing happens,
\* otherwise lru_order.remove(0) and the removal of that code from the cache.
EvictIfOver(cache, lru, limit) ==
    IF Cardinality(DOMAIN cache) <= limit
    THEN [cache |-> cache, lru |-> lru, evicted |-> ""]
    ELSE [cache |-> MapRemove(cache, Head(lru)), lru |-> Tail(lru),
          evicted |-> Head(lru)]

\* Mutant of CatalogGet: a code without a catalog entry is given the path
\* its file would have instead of the "Language file not found" error.
CatalogGet_AssumedPath(cat, lang) ==
    [ok |-> TRUE, path |-> IF lang \in DOMAIN cat THEN cat[lang] ELSE PathOf(lang)]

\* supported_languages.get(_lang).ok_or_else(NotFound "Language file not found")
CatalogGet(cat, lang) ==
    IF lang \in DOMAIN cat
    THEN [ok |-> TRUE, path |-> cat[lang]]
    ELSE [ok |-> FALSE, path |-> ""]

\* The miss branch: the recency update, then the catalog lookup, the file
\* read and the parse, each of which returns early on failure, then the
\* insertion and the capacity check.
LoadBranch(cat, cache, lru, limit, dir, lang) ==
    LET lru1 == TouchOrder(lru, lang) IN
    LET entry == CatalogGet(cat, lang) IN
    IF ~entry.ok
    THEN [cache |-> cache, lru |-> lru1, ret |-> CatalogMiss,
          read |-> FALSE, consulted |-> TRUE, evicted |-> ""]
    ELSE LET rd == read_to_string(dir, entry.path) IN
         IF ~rd.ok
         THEN [cache |-> cache, lru |-> lru1, ret |-> ReadFailure,
               read |-> TRUE, consulted |-> TRUE, evicted |-> ""]
         ELSE LET parsed == from_str(rd.data) IN
              IF ~parsed.ok
              THEN [cache |-> cache, lru |-> lru1, ret |-> ParseFailure,
                    read |-> TRUE, consulted |-> TRUE, evicted |-> ""]
              ELSE LET ev == EvictIfOver(MapInsert(cache, lang, parsed.map),
                                         lru1, limit)
                   IN [cache |-> ev.cache, lru |-> ev.lru, ret |-> OkTrue,
                       read |-> TRUE, consulted |-> TRUE,
                       evicted |-> ev.evicted]

\* Mutant of HitBranch: a hit returns without the recency update.
HitBranch_NoTouch(cache, lru, lang) ==
    [cache |-> cache, lru |-> lru, ret |-> OkTrue,
     read |-> FALSE, consulted |-> FALSE, evicted |-> ""]

\* Mutant of HitBranch: the code is pushed without the retain before it.
HitBranch_PushOnly(cache, lru, lang) ==
    [cache |-> cache, lru |-> Push(lru, lang), ret |-> OkTrue,
     read |-> FALSE, consulted |-> FALSE, evicted |-> ""]

\* The hit branch: only the recency update.
HitBranch(cache, lru, lang) ==
    [cache |-> cache, lru |-> TouchOrder(lru, lang), ret |-> OkTrue,
     read |-> FALSE, consulted |-> FALSE, evicted |-> ""]

\* langs_cache_manager(_key, _lang): the if / else-if chain of the method.
\* The result carries the new cache and recency sequence, the value
\* returned, whether a file was read and the catalog consulted, and the
\* code taken by lru_order.remove(0) ("" when nothing was evicted).
langs_cache_manager(cat, cache, lru, limit, dir, lang) ==
    IF lang \in DOMAIN cache
    THEN HitBranch(cache, lru, lang)
    ELSE IF lang \notin DOMAIN cache
    THEN LoadBranch(cat, cache, lru, limit, dir, lang)
    ELSE IF Cardinality(DOMAIN cat) = 0
    THEN [cache |-> cache, lru |-> lru, ret |-> OkFalse,
          read |-> FALSE, consulted |-> TRUE, evicted |-> ""]
    ELSE [cache |-> EmptyMap, lru |-> << >>, ret |-> OkFalse,
          read |-> FALSE, consulted |-> TRUE, evicted |-> ""]

\* ----------------------------------------------------- get_text_by_key

\* Mutant of EffectiveLang: a non-empty fallback is preferred to the
\* requested language.
EffectiveLang_FallbackFirst(lang, fallback, cat) ==
    IF fallback # "" THEN fallback
    ELSE IF lang \in DOMAIN cat THEN lang ELSE DefaultLang

\* The effective language of get_text_by_key.
EffectiveLang(lang, fallback, cat) ==
    LET effective_fallback ==
            IF fallback # "" /\ lang \notin DOMAIN cat
            THEN fallback ELSE DefaultLang
    IN IF lang \in DOMAIN cat THEN lang ELSE effective_fallback

\* Mutant of LangMap: the table is taken from some cached language, not
\* from the effective one.
LangMap_AnyCached(cache, effective_lang) ==
    IF (DOMAIN cache) \ {effective_lang} = {}
    THEN cache[effective_lang]
    ELSE cache[CHOOSE c \in (DOMAIN cache) \ {effective_lang} : TRUE]

\* The table get_text_by_key reads after langs_cache_manager returned.
LangMap(cache, effective_lang) == cache[effective_lang]

\* The part of get_text_by_key after langs_cache_manager returned without
\* an error: the cache lookup of the effective language, then the key.
TextResult(cache, effective_lang, passing, key) ==
    IF effective_lang \notin DOMAIN cache
    THEN [ret |-> CacheAbsent, text |-> ""]
    ELSE LET lang_map == LangMap(cache, effective_lang) IN
         IF passing = OkTrue
         THEN IF key \in DOMAIN lang_map
              THEN [ret |-> OkText, text |-> lang_map[key]]
              ELSE [ret |-> KeyMiss, text |-> ""]
         ELSE [ret |-> ManageFailed, text |-> ""]

\* No call yet. A call records its name, the key asked for, the effective (or
\* reloaded) language, what it returned, what langs_cache_manager reported,
\* and the codes whose tables its invalidation took out of the cache.
NoCall == [op |-> "new", key |-> "", eff |-> "", ret |-> "", text |-> "",
           read |-> FALSE, consulted |-> FALSE, evicted |-> "", dropped |-> {}]

get_text_by_key(key, lang, fallback) ==
    LET eff == EffectiveLang(lang, fallback, supported_languages)
        m == langs_cache_manager(supported_languages, supported_languages_cache,
                                 lru_order, sup_lang_cache_limit, fs, eff)
        r == IF IsErr(m.ret) THEN [ret |-> m.ret, text |-> ""]
             ELSE TextResult(m.cache, eff, m.ret, key)
    IN /\ supported_languages_cache' = m.cache
       /\ lru_order' = m.lru
       /\ last' = [op |-> "get_text_by_key", key |-> key, eff |-> eff, ret |-> r.ret,
                   text |-> r.text, read |-> m.read, consulted |-> m.consulted,
                   evicted |-> m.evicted, dropped |-> {}]
       /\ UNCHANGED <<fs, supported_languages, sup_lang_cache_limit>>

\* ------------------------------------------------- maintenance operations

\* The invalidation of one code: supported_languages_cache.remove(code) and
\* lru_order.retain(|l| l != code).
Invalidate(cache, lru, code) ==
    [cache |-> MapRemove(cache, code), lru |-> Retain(lru, code)]

\* Mutant of InvalidateAll: the loop removes the tables but leaves
\* lru_order alone.
InvalidateAll_CacheOnly(codes, cache, lru) ==
    [cache |-> [c \in (DOMAIN cache) \ codes |-> cache[c]], lru |-> lru]

\* Mutant of InvalidateAll: every cached table and recency entry is removed,
\* also those of codes that are not in the catalog.
InvalidateAll_Everything(codes, cache, lru) ==
    [cache |-> EmptyMap, lru |-> << >>]

\* Mutant of InvalidateAll: the loop is missing.
InvalidateAll_None(codes, cache, lru) ==
    [cache |-> cache, lru |-> lru]

\* The loop of rescan_languages: every code of the catalog is removed from
\* the cache and from the recency sequence.
InvalidateAll(codes, cache, lru) ==
    [cache |-> [c \in (DOMAIN cache) \ codes |-> cache[c]],
     lru |-> SelectSeq(lru, LAMBDA l : l \notin codes)]

\* Mutant of rescan_languages: a failed enumeration leaves an empty catalog
\* behind before the error is returned.
rescan_languages_ClearOnFailure(scan_ok) ==
    IF ~scan_ok
    THEN /\ supported_languages' = EmptyMap
         /\ last' = [NoCall EXCEPT !.op = "rescan_languages", !.ret = ScanFailure]
         /\ UNCHANGED <<fs, supported_languages_cache,
                        lru_order, sup_lang_cache_limit, touched>>
    ELSE LET cat == scan_languages(fs)
             inv == InvalidateAll(DOMAIN cat, supported_languages_cache, lru_order)
         IN /\ supported_languages' = cat
            /\ supported_languages_cache' = inv.cache
            /\ lru_order' = inv.lru
            /\ last' = [NoCall EXCEPT !.op = "rescan_languages", !.ret = OkTrue,
                                      !.dropped = (DOMAIN supported_languages_cache)
                                                     \ (DOMAIN inv.cache)]
            /\ UNCHANGED <<fs, sup_lang_cache_limit, touched>>

\* rescan_languages; the enumeration of the directory either fails (the
\* error is returned before anything is assigned) or yields the new catalog.
rescan_languages(scan_ok) ==
    IF ~scan_ok
    THEN /\ last' = [NoCall EXCEPT !.op = "rescan_languages", !.ret = ScanFailure]
         /\ UNCHANGED <<fs, supported_languages, supported_languages_cache,
                        lru_order, sup_lang_cache_limit, touched>>
    ELSE LET cat == scan_languages(fs)
             inv == InvalidateAll(DOMAIN cat, supported_languages_cache, lru_order)
         IN /\ supported_languages' = cat
            /\ supported_languages_cache' = inv.cache
            /\ lru_order' = inv.lru
            /\ last' = [NoCall EXCEPT !.op = "rescan_languages", !.ret = OkTrue,
                                      !.dropped = (DOMAIN supported_languages_cache)
                                                     \ (DOMAIN inv.cache)]
            /\ UNCHANGED <<fs, sup_lang_cache_limit, touched>>

\* Mutant of reload_language: the invalidation runs before the catalog
\* check, so a code outside the catalog loses its cached table.
reload_language_InvalidateFirst(lang) ==
    LET inv == Invalidate(supported_languages_cache, lru_order, lang) IN
    IF lang \in DOMAIN supported_languages
    THEN LET m == langs_cache_manager(supported_languages, inv.cache, inv.lru,
                                      sup_lang_cache_limit, fs, lang)
         IN /\ supported_languages_cache' = m.cache
            /\ lru_order' = m.lru
            /\ last' = [NoCall EXCEPT !.op = "reload_language", !.eff = lang,
                                      !.ret = IF IsErr(m.ret) THEN m.ret ELSE OkTrue,
                                      !.read = m.read, !.consulted = m.consulted,
                                      !.evicted = m.evicted,
                                      !.dropped = (DOMAIN supported_languages_cache)
                                                     \ (DOMAIN inv.cache)]
            /\ UNCHANGED <<fs, supported_languages, sup_lang_cache_limit, touched>>
    ELSE /\ supported_languages_cache' = inv.cache
         /\ lru_order' = inv.lru
         /\ last' = [NoCall EXCEPT !.op = "reload_language", !.eff = lang,
                                   !.ret = NotSupported]
         /\ UNCHANGED <<fs, supported_languages, sup_lang_cache_limit, touched>>

reload_language(lang) ==
    IF lang \in DOMAIN supported_languages
    THEN LET inv == Invalidate(supported_languages_cache, lru_order, lang)
             m == langs_cache_manager(supported_languages, inv.cache, inv.lru,
                                      sup_lang_cache_limit, fs, lang)
         IN /\ supported_languages_cache' = m.cache
            /\ lru_order' = m.lru
            /\ last' = [NoCall EXCEPT !.op = "reload_language", !.eff = lang,
                                      !.ret = IF IsErr(m.ret) THEN m.ret ELSE OkTrue,
                                      !.read = m.read, !.consulted = m.consulted,
                                      !.evicted = m.evicted,
                                      !.dropped = (DOMAIN supported_languages_cache)
                                                     \ (DOMAIN inv.cache)]
            /\ UNCHANGED <<fs, supported_languages, sup_lang_cache_limit, touched>>
    ELSE /\ last' = [NoCall EXCEPT !.op = "reload_language", !.eff = lang,
                                   !.ret = NotSupported]
         /\ UNCHANGED <<fs, supported_languages, supported_languages_cache,
                        lru_order, sup_lang_cache_limit, touched>>

\* Mutant of reload_all: the two clear() calls are missing, reload_all only
\* rescans.
reload_all_NoClear(scan_ok) ==
    IF ~scan_ok
    THEN /\ last' = [NoCall EXCEPT !.op = "reload_all", !.ret = ScanFailure]
         /\ UNCHANGED <<fs, supported_languages, supported_languages_cache,
                        lru_order, sup_lang_cache_limit, touched>>
    ELSE LET cat == scan_languages(fs)
             inv == InvalidateAll(DOMAIN cat, supported_languages_cache, lru_order)
         IN /\ supported_languages' = cat
            /\ supported_languages_cache' = inv.cache
            /\ lru_order' = inv.lru
            /\ last' = [NoCall EXCEPT !.op = "reload_all", !.ret = OkTrue,
                                      !.dropped = (DOMAIN supported_languages_cache)
                                                     \ (DOMAIN inv.cache)]
            /\ UNCHANGED <<fs, sup_lang_cache_limit, touched>>

\* reload_all: the cache and the recency sequence are cleared first, then
\* rescan_languages runs; its error is returned after the clearing.
reload_all(scan_ok) ==
    IF ~scan_ok
    THEN /\ supported_languages_cache' = EmptyMap
         /\ lru_order' = << >>
         /\ last' = [NoCall EXCEPT !.op = "reload_all", !.ret = ScanFailure,
                                   !.dropped = DOMAIN supported_languages_cache]
         /\ UNCHANGED <<fs, supported_languages, sup_lang_cache_limit, touched>>
    ELSE LET cat == scan_languages(fs)
             inv == InvalidateAll(DOMAIN cat, EmptyMap, << >>)
         IN /\ supported_languages' = cat
            /\ supported_languages_cache' = inv.cache
            /\ lru_order' = inv.lru
            /\ last' = [NoCall EXCEPT !.op = "reload_all", !.ret = OkTrue,
                                      !.dropped = DOMAIN supported_languages_cache]
            /\ UNCHANGED <<fs, sup_lang_cache_limit, touched>>

\* ------------------------------------------------------------ environment

\* Something outside the program writes, replaces or deletes a language file.
FsChange(code, file) ==
    /\ fs[code] # file
    /\ fs' = [fs EXCEPT ![code] = file]
    /\ last' = [NoCall EXCEPT !.op = "fs"]
    /\ UNCHANGED <<supported_languages, supported_languages_cache, lru_order,
                   sup_lang_cache_limit, touched>>

\* ---------------------------------------------------------- specification

\* Localizer::new(): the catalog is the scan of the directory as it is, the
\* cache and the recency sequence are empty.
Init ==
    /\ fs \in Directories
    /\ supported_languages = scan_languages(fs)
    /\ supported_languages_cache = EmptyMap
    /\ lru_order = << >>
    /\ sup_lang_cache_limit \in Limits
    /\ last = NoCall
    /\ touched = << >>

\* A caller's get_text_by_key.
GetText(key, lang, fallback) ==
    get_text_by_key(key, lang, fallback) /\ UNCHANGED touched

Next ==
    \/ \E key \in Keys, lang \in LangArgs, fallback \in FallbackArgs :
          GetText(key, lang, fallback)
    \/ \E scan_ok \in BOOLEAN : rescan_languages(scan_ok)
    \/ \E lang \in LangArgs : reload_language(lang)
    \/ \E scan_ok \in BOOLEAN : reload_all(scan_ok)
    \/ \E code \in ChangingCodes : \E file \in FileStates(code) : FsChange(code, file)

Spec == Init /\ [][Next]_vars

\* A run of successful touch-or-load calls only: get_text_by_key on a
\* catalogued language whose langs_cache_manager call returns Ok, from the
\* state new() leaves; the directory does not change.
LoadOk(key, lang) ==
    /\ lang \in DOMAIN supported_languages
    /\ get_text_by_key(key, lang, "")
    /\ last'.ret \in {OkText, KeyMiss}
    /\ touched' = Append(SelectSeq(touched, LAMBDA l : l # lang), lang)

NextLoads == \E key \in Keys, lang \in FileCodes : LoadOk(key, lang)

SpecLoads == Init /\ [][NextLoads]_vars

\* ------------------------------------------------------------- properties

\* The errors langs_cache_manager returns from its miss branch.
LoadFailures == {CatalogMiss, ReadFailure, ParseFailure}

\* The last call reached langs_cache_manager (touch-or-load) and completed.
TouchCompleted(l) ==
    \/ l.op = "get_text_by_key"
    \/ l.op = "reload_language" /\ l.ret # NotSupported

\* The last call's langs_cache_manager returned Ok.
TouchSucceeded(l) ==
    \/ l.op = "get_text_by_key" /\ l.ret \notin LoadFailures
    \/ l.op = "reload_language" /\ l.ret = OkTrue

\* The cache and the recency sequence langs_cache_manager starts from in a
\* step that ends with the call l: reload_language invalidates the code
\* first, get_text_by_key passes the state as it is.
CacheAtTouch(l) ==
    IF l.op = "reload_language"
    THEN MapRemove(supported_languages_cache, l.eff)
    ELSE supported_languages_cache

OrderAtTouch(l) ==
    IF l.op = "reload_language" THEN Retain(lru_order, l.eff) ELSE lru_order

\* C1: in every reachable state the set of keys of supported_languages_cache
\* equals the set of elements of lru_order.
C1_SetParity == DOMAIN supported_languages_cache = Range(lru_order)

\* C2: after any completed touch-or-load, successful or failed, the cache
\* holds at most sup_lang_cache_limit tables.
C2_Capacity ==
    TouchCompleted(last) =>
        Cardinality(DOMAIN supported_languages_cache) <= sup_lang_cache_limit

\* C3: a touch-or-load of an uncached language that fails (no catalog
\* entry, unreadable file, malformed content) returns the failure and leaves
\* supported_languages_cache and lru_order as they were before the call.
C3_FailedLoadKeepsState ==
    [][ (TouchCompleted(last') /\ last'.ret \in LoadFailures)
          => /\ supported_languages_cache' = CacheAtTouch(last')
             /\ lru_order' = OrderAtTouch(last') ]_vars

\* C4: when the cache holds exactly N tables, a successful load of a
\* language not in the cache removes exactly one previously cached table,
\* the one at the front of the recency sequence, and leaves exactly N tables.
C4_ExactlyOneEviction ==
    [][ ( /\ TouchSucceeded(last')
          /\ last'.eff \notin DOMAIN CacheAtTouch(last')
          /\ Cardinality(DOMAIN CacheAtTouch(last')) = sup_lang_cache_limit )
          => /\ Cardinality(DOMAIN supported_languages_cache') = sup_lang_cache_limit
             /\ (DOMAIN CacheAtTouch(last')) \ (DOMAIN supported_languages_cache')
                   = {Head(OrderAtTouch(last'))} ]_vars

\* The last element of a non-empty sequence.
Last(seq) == seq[Len(seq)]

\* The last n elements of a sequence.
LastN(seq, n) == SubSeq(seq, Len(seq) - n + 1, Len(seq))

Min(a, b) == IF a <= b THEN a ELSE b

\* C5: from an empty cache, after any sequence of successful touch-or-load
\* calls on catalogued languages (hits and misses mixed), the cache holds
\* exactly the min(N, number of distinct languages touched) most recently
\* touched languages.
C5_LruCorrectness ==
    DOMAIN supported_languages_cache =
        Range(LastN(touched, Min(sup_lang_cache_limit, Len(touched))))

\* C5 witness: capacity 2, three distinct languages touched, the two most
\* recently touched are the ones cached.
C5_Witness ==
    /\ sup_lang_cache_limit = 2
    /\ Len(touched) = 3
    /\ DOMAIN supported_languages_cache = {touched[2], touched[3]}
    /\ last.evicted = touched[1]

\* The last call was a get_text_by_key served from the cache (a hit).
IsHit(l) == l.op = "get_text_by_key" /\ l.ret \in {OkText, KeyMiss} /\ ~l.read

\* C6: a touch-or-load of a cached code moves the code to the back of
\* lru_order, keeps the relative order of the other codes, leaves the cache
\* mapping unchanged, reads no file and does not consult the catalog; and
\* when a hit on a full cache whose codes are exactly those of lru_order is
\* followed by a successful load of a new language, the code evicted is the
\* front of lru_order and not the code just touched.
C6_CacheHit ==
    [][ /\ ( /\ last'.op = "get_text_by_key"
             /\ last'.eff \in DOMAIN supported_languages_cache )
          => /\ Last(lru_order') = last'.eff
             /\ Len(lru_order') = Len(lru_order)
             /\ Retain(lru_order', last'.eff) = Retain(lru_order, last'.eff)
             /\ supported_languages_cache' = supported_languages_cache
             /\ ~last'.read
             /\ ~last'.consulted
             /\ last'.ret \in {OkText, KeyMiss}
        /\ ( /\ IsHit(last)
             /\ Len(lru_order) >= 2
             /\ Range(lru_order) = DOMAIN supported_languages_cache
             /\ Cardinality(DOMAIN supported_languages_cache) = sup_lang_cache_limit
             /\ last'.op = "get_text_by_key"
             /\ last'.ret \in {OkText, KeyMiss}
             /\ last'.eff \notin DOMAIN supported_languages_cache )
          => /\ last'.evicted = Head(lru_order)
             /\ Head(lru_order) \notin DOMAIN supported_languages_cache'
             /\ last.eff \in DOMAIN supported_languages_cache'
             /\ last.eff # Head(lru_order) ]_vars

\* C6 witness: a hit on one code of a full cache of two, which is now the
\* back of lru_order, the other code being the front.
C6_Witness ==
    /\ IsHit(last)
    /\ sup_lang_cache_limit = 2
    /\ Len(lru_order) = 2
    /\ DOMAIN supported_languages_cache = Range(lru_order)
    /\ lru_order[2] = last.eff

\* The resolution rule as the specification words it.
Resolve(requested, fallback, catalog) ==
    IF requested \in catalog THEN requested
    ELSE IF fallback # "" THEN fallback
    ELSE "en-GB"

\* C7: the effective language of get_text_by_key is the requested code if
\* it is a catalog key, otherwise the fallback if it is non-empty, otherwise
\* "en-GB"; the catalog is left as it was.
C7_Resolver ==
    [][ last'.op = "get_text_by_key" =>
          \A lang \in LangArgs, fallback \in FallbackArgs :
             GetText(last'.key, lang, fallback)
               => /\ last'.eff = Resolve(lang, fallback, DOMAIN supported_languages)
                  /\ supported_languages' = supported_languages ]_vars

\* C7 witness: a call resolved to the fallback "fr", which is no catalog
\* key (so the requested code was none either).
C7_Witness ==
    /\ last.op = "get_text_by_key"
    /\ last.eff = "fr"
    /\ last.eff \notin DOMAIN supported_languages
    /\ "en-GB" \in DOMAIN supported_languages

\* C8 as claimed: a get_text_by_key whose requested language and effective
\* fallback are both outside the catalog (so the effective language is no
\* catalog key) fails as CatalogMiss and returns no text.
C8_UnsupportedFallbackFails ==
    ( /\ last.op = "get_text_by_key"
      /\ last.eff \notin DOMAIN supported_languages )
      => /\ last.ret = CatalogMiss
         /\ ErrorKind(last.ret) = "NotFound"
         /\ last.text = ""

\* C8 amended: such a call fails as CatalogMiss (NotFound) and returns no
\* text when the effective fallback has no table in the cache; when a table
\* of it is still cached (an orphan left by rescan_languages), the call is
\* a hit: it reads no file and answers from that table.
C8_UnsupportedFallback ==
    ( /\ last.op = "get_text_by_key"
      /\ last.eff \notin DOMAIN supported_languages )
      => IF last.eff \in DOMAIN supported_languages_cache
         THEN IsHit(last)
         ELSE /\ last.ret = CatalogMiss
              /\ ErrorKind(last.ret) = "NotFound"
              /\ last.text = ""
              /\ ~last.read

\* C8 witness: a call resolved to a code outside the catalog and outside
\* the cache has failed as CatalogMiss.
C8_Witness ==
    /\ last.op = "get_text_by_key"
    /\ last.eff \notin DOMAIN supported_languages
    /\ last.eff \notin DOMAIN supported_languages_cache
    /\ last.ret = CatalogMiss

\* The texts the files of a language can hold under a key.
TextsOf(code, key) ==
    {d[i][2] : <<d, i>> \in {<<d, i>> \in Docs(code) \X (1..2) :
                               /\ i \in DOMAIN d
                               /\ Len(d[i]) = 2
                               /\ d[i][1] = key}}

\* C9: when the touch-or-load of the effective language succeeds,
\* get_text_by_key returns exactly the value stored under the key in the
\* effective language's table, a text of that language and of no other, and
\* fails with NotFound (KeyMiss) when the key is absent from that table.
C9_TextFromEffectiveTable ==
    ( last.op = "get_text_by_key" /\ last.ret \notin LoadFailures )
      => /\ last.ret \in {OkText, KeyMiss}
         /\ last.eff \in DOMAIN supported_languages_cache
         /\ last.ret = OkText
              => /\ last.key \in DOMAIN supported_languages_cache[last.eff]
                 /\ last.text = supported_languages_cache[last.eff][last.key]
                 /\ last.text \in TextsOf(last.eff, last.key)
         /\ last.ret = KeyMiss
              => /\ last.key \notin DOMAIN supported_languages_cache[last.eff]
                 /\ ErrorKind(last.ret) = "NotFound"
                 /\ last.text = ""

\* C9 witness: a text returned from the effective language's table while
\* another language's table, holding a different text for the key, is cached.
C9_Witness ==
    /\ last.op = "get_text_by_key"
    /\ last.ret = OkText
    /\ \E c \in DOMAIN supported_languages_cache :
          /\ c # last.eff
          /\ last.key \in DOMAIN supported_languages_cache[c]
          /\ supported_languages_cache[c][last.key] # last.text

\* C10: with capacity N >= 1, after a successful get_text_by_key or
\* reload_language the effective language is in supported_languages_cache
\* and is the last element of lru_order.
C10_NewLanguageKept ==
    ( /\ sup_lang_cache_limit >= 1
      /\ \/ last.op = "get_text_by_key" /\ last.ret = OkText
         \/ last.op = "reload_language" /\ last.ret = OkTrue )
      => /\ last.eff \in DOMAIN supported_languages_cache
         /\ lru_order # << >>
         /\ Last(lru_order) = last.eff

\* C10 witness: a successful load into a full cache: a code was evicted,
\* the new language is cached and is the back of lru_order.
C10_Witness ==
    /\ last.op \in {"get_text_by_key", "reload_language"}
    /\ last.ret \in {OkText, OkTrue}
    /\ last.read
    /\ last.evicted \in DOMAIN supported_languages
    /\ last.evicted # last.eff
    /\ Cardinality(DOMAIN supported_languages_cache) = sup_lang_cache_limit
    /\ last.eff \in DOMAIN supported_languages_cache
    /\ Last(lru_order) = last.eff

\* The codes of the files the directory holds now.
FilesPresent == {c \in FileCodes : fs[c] # NoFile}

\* The last call was a rescan_languages that returned Ok.
RescanOk(l) == l.op = "rescan_languages" /\ l.ret = OkTrue

\* C11: a successful rescan_languages replaces supported_languages with the
\* newly enumerated catalog and removes every code of the new catalog from
\* supported_languages_cache and from lru_order, so that right after it no
\* code of the new catalog is cached.
C11_RescanInvalidatesCatalogued ==
    RescanOk(last)
      => /\ DOMAIN supported_languages = FilesPresent
         /\ \A c \in FilesPresent : supported_languages[c] = PathOf(c)
         /\ (DOMAIN supported_languages) \cap (DOMAIN supported_languages_cache) = {}
         /\ (DOMAIN supported_languages) \cap Range(lru_order) = {}
         /\ last.dropped \subseteq DOMAIN supported_languages

\* C11 witness: a rescan that took the table of a catalogued language out of
\* the cache.
C11_Witness ==
    /\ RescanOk(last)
    /\ last.dropped # {}
    /\ last.dropped \subseteq DOMAIN supported_languages

\* C12: rescan_languages leaves every cache entry of a language that is not
\* in the new catalog as it was: its table, and its place in lru_order
\* relative to the other surviving codes.
C12_RescanKeepsOrphans ==
    [][ RescanOk(last')
          => /\ \A c \in (DOMAIN supported_languages_cache)
                             \ (DOMAIN supported_languages') :
                   /\ c \in DOMAIN supported_languages_cache'
                   /\ supported_languages_cache'[c] = supported_languages_cache[c]
                   /\ c \in Range(lru_order')
             /\ lru_order' = SelectSeq(lru_order,
                                 LAMBDA l : l \notin DOMAIN supported_languages')
        ]_vars

\* C12 witness: after a rescan two tables of languages outside the new
\* catalog are still cached, in their recency order.
C12_Witness ==
    /\ RescanOk(last)
    /\ Cardinality(DOMAIN supported_languages_cache) = 2
    /\ Len(lru_order) = 2
    /\ Range(lru_order) = DOMAIN supported_languages_cache

\* C13: reload_language of a code that is no key of the current catalog
\* fails with NotFound and leaves supported_languages,
\* supported_languages_cache and lru_order unchanged, so an orphaned table
\* of a de-listed code stays cached.
C13_ReloadUnsupported ==
    [][ ( /\ last'.op = "reload_language"
          /\ last'.eff \notin DOMAIN supported_languages )
          => /\ last'.ret = NotSupported
             /\ ErrorKind(last'.ret) = "NotFound"
             /\ supported_languages' = supported_languages
             /\ supported_languages_cache' = supported_languages_cache
             /\ lru_order' = lru_order ]_vars

\* C13 witness: a reload of a de-listed code was refused while its orphaned
\* table is cached.
C13_Witness ==
    /\ last.op = "reload_language"
    /\ last.ret = NotSupported
    /\ last.eff \in DOMAIN supported_languages_cache
    /\ last.eff \in Range(lru_order)

\* C14: after a successful reload_all supported_languages_cache and
\* lru_order are empty, no orphaned entry survives, and supported_languages
\* is the newly enumerated catalog.
C14_ReloadAllClears ==
    ( last.op = "reload_all" /\ last.ret = OkTrue )
      => /\ supported_languages_cache = EmptyMap
         /\ lru_order = << >>
         /\ DOMAIN supported_languages = FilesPresent
         /\ \A c \in FilesPresent : supported_languages[c] = PathOf(c)

\* C14 witness: a reload_all that cleared the table of a language which is
\* not in the new catalog (an orphan).
C14_Witness ==
    /\ last.op = "reload_all"
    /\ last.ret = OkTrue
    /\ last.dropped \ (DOMAIN supported_languages) # {}
    /\ supported_languages # EmptyMap

\* The table holds exactly the entries of the document.
TableIs(table, doc) ==
    /\ \A k \in DOMAIN table : \E i \in DOMAIN doc : doc[i] = <<k, table[k]>>
    /\ \A i \in DOMAIN doc : Len(doc[i]) = 2 /\ doc[i][1] \in DOMAIN table

\* The last call was a rescan_languages or a reload_all that returned Ok.
CatalogRefreshed(l) == l.op \in {"rescan_languages", "reload_all"} /\ l.ret = OkTrue

C16_ReloadRoundTrip ==
    [][ ( /\ last'.op = "reload_language"
          /\ last'.ret = OkTrue
          /\ last'.eff \in DOMAIN supported_languages_cache
          /\ fs[last'.eff] # NoFile
          /\ TableIs(supported_languages_cache[last'.eff], fs[last'.eff].data) )
          => /\ last'.eff \in DOMAIN supported_languages_cache'
             /\ supported_languages_cache'[last'.eff]
                   = supported_languages_cache[last'.eff] ]_vars

\* C16 witness: a successful reload of a language that was cached: its
\* table was dropped, loaded again, and is what the file holds.
C16_Witness ==
    /\ last.op = "reload_language"
    /\ last.ret = OkTrue
    /\ last.dropped = {last.eff}
    /\ last.read
    /\ last.eff \in DOMAIN supported_languages_cache
    /\ TableIs(supported_languages_cache[last.eff], fs[last.eff].data)

\* C17: the invalidation of a code (its removal from the cache and from
\* lru_order) changes neither structure when the code is not cached, and
\* applied twice gives what it gives applied once; a rescan_languages that
\* finds none of the catalog's codes cached changes neither structure, and
\* a second rescan_languages right after a first leaves the state as the
\* first left it.
C17_IdempotentInvalidation ==
    [][ /\ \A c \in LangArgs :
             LET once == Invalidate(supported_languages_cache, lru_order, c)
                 twice == Invalidate(once.cache, once.lru, c)
             IN /\ twice = once
                /\ c \notin DOMAIN supported_languages_cache
                     => /\ once.cache = supported_languages_cache
                        /\ once.lru = lru_order
        /\ ( /\ RescanOk(last')
             /\ (DOMAIN supported_languages') \cap (DOMAIN supported_languages_cache) = {} )
               => /\ supported_languages_cache' = supported_languages_cache
                  /\ lru_order' = lru_order
        /\ ( RescanOk(last) /\ RescanOk(last') )
               => UNCHANGED <<supported_languages, supported_languages_cache, lru_order>>
      ]_vars

NoDuplicates(seq) == \A i, j \in DOMAIN seq : i # j => seq[i] # seq[j]

\* C18: lru_order never holds a code twice.
C18_NoDuplicates == NoDuplicates(lru_order)

\* C18 witness: a load that failed for a code lru_order already held next
\* to another one; the code is there once, at the back.
C18_Witness ==
    /\ last.op = "get_text_by_key"
    /\ last.ret \in {ReadFailure, ParseFailure, CatalogMiss}
    /\ Len(lru_order) = 2
    /\ lru_order[2] = last.eff
    /\ last.eff \notin DOMAIN supported_languages_cache
    /\ lru_order[1] \in DOMAIN supported_languages_cache

\* C19: with an empty catalog a get_text_by_key fails with an error other
\* than the "Language file not found" of a catalog miss, and returns no text.
C19_EmptyCatalog ==
    ( last.op = "get_text_by_key" /\ supported_languages = EmptyMap )
      => /\ IsErr(last.ret)
         /\ last.ret # CatalogMiss
         /\ last.text = ""

\* The last call was a rescan_languages or a reload_all whose enumeration
\* of the directory failed.
ScanFailed(l) == l.op \in {"rescan_languages", "reload_all"} /\ l.ret = ScanFailure

\* C20 as stated: a rescan_languages or reload_all whose enumeration fails
\* leaves the catalog, the cache and lru_order as they were.
C20_FailureAtomicity ==
    [][ ScanFailed(last')
          => UNCHANGED <<supported_languages, supported_languages_cache, lru_order>> ]_vars

\* C20, amended: a failed enumeration is returned and leaves the catalog as
\* it was; rescan_languages also leaves the cache and lru_order as they
\* were, reload_all has emptied both by then.
C20_ScanFailure ==
    [][ ScanFailed(last')
          => /\ supported_languages' = supported_languages
             /\ last'.op = "rescan_languages"
                  => UNCHANGED <<supported_languages_cache, lru_order>>
             /\ last'.op = "reload_all"
                  => /\ supported_languages_cache' = EmptyMap
                     /\ lru_order' = << >> ]_vars

\* C20 witness: a reload_all whose enumeration failed after it had cleared
\* cached tables; the catalog still lists languages.
C20_Witness ==
    /\ last.op = "reload_all"
    /\ last.ret = ScanFailure
    /\ last.dropped # {}
    /\ supported_languages_cache = EmptyMap
    /\ lru_order = << >>
    /\ supported_languages # EmptyMap

====
